---- MODULE Spec2Model ----
(***************************************************************************)
(* AudioChecker (src/audio_checker.py): one analysis session over one      *)
(* input file.  The session object, the files it touches and the outcome   *)
(* of each call are the state; every public method is one action.          *)
(***************************************************************************)
EXTENDS Integers, Sequences, FiniteSets, TLC

(* ------------------------------ bounds --------------------------------- *)

\* longest data chunk (bytes) of a container offered to the library session
MaxDataLen == 4
\* longest data chunk (bytes) of a container offered to the script run
MaxMainLen == 4
\* longest data chunk (bytes) of the few-valued containers of the script run
MaxLongLen == 8

(* ------------------------- values and helpers -------------------------- *)

\* Python's None and a set value: <<>> and <<v>>
None == <<>>
Some(v) == <<v>>
Val(o) == o[1]

Min(a, b) == IF a <= b THEN a ELSE b
Max(a, b) == IF a >= b THEN a ELSE b
Abs(x) == IF x < 0 THEN -x ELSE x

\* all sequences over S of length at most n
SeqsUpTo(S, n) == UNION {[1..k -> S] : k \in 0..n}

\* ------------------------------------------------------------------ paths
\* str.lower() on one character
LowerChar(c) ==
    CASE c = "W" -> "w"
      [] c = "A" -> "a"
      [] c = "V" -> "v"
      [] c = "M" -> "m"
      [] c = "P" -> "p"
      [] OTHER   -> c

\* str.lower()
Lower(s) == [i \in 1..Len(s) |-> LowerChar(s[i])]

\* str.rfind(ch): the last index of ch in s, 0 when absent (1-based)
RFind(s, ch) ==
    LET hits == {i \in 1..Len(s) : s[i] = ch}
    IN  IF hits = {} THEN 0 ELSE CHOOSE i \in hits : \A j \in hits : j <= i

\* os.path.splitext(p)[1]: the text from the last dot of the last path
\* component on, unless that component has only dots before it
SplitExt(p) ==
    LET sepIndex == RFind(p, "/")
        dotIndex == RFind(p, ".")
    IN  IF dotIndex > sepIndex
           /\ \E k \in (sepIndex + 1)..(dotIndex - 1) : p[k] # "."
        THEN SubSeq(p, dotIndex, Len(p))
        ELSE <<>>

\* str.endswith(suffix)
EndsWith(s, suffix) ==
    /\ Len(s) >= Len(suffix)
    /\ SubSeq(s, Len(s) - Len(suffix) + 1, Len(s)) = suffix

DotWav == <<".", "w", "a", "v">>
DotMp3 == <<".", "m", "p", "3">>

\* variant: the suffix test load_wav uses, in place of splitext
SupportedBySuffix(filepath) ==
    EndsWith(Lower(filepath), DotWav) \/ EndsWith(Lower(filepath), DotMp3)

\* the test of __init__: ext in ('.wav', '.mp3')
Supported(filepath) == Lower(SplitExt(filepath)) \in {DotWav, DotMp3}

\* the test of load_wav: filepath.lower().endswith('.mp3')
NeedsTranscode(filepath) == EndsWith(Lower(filepath), DotMp3)

\* the input paths a caller may pass
Paths ==
    { <<"a", ".", "w", "a", "v">>,
      <<"a", ".", "M", "p", "3">>,
      <<"a", ".", "f", "l", "a", "c">>,
      <<"a", ".", "W", "A", "V", ".", "b">>,
      <<".", "m", "p", "3">>,
      <<"a", ".", "m", "p", "3", "/", "b">>,
      <<"w", "a", "v">>,
      <<>> }

\* ------------------------------------------------------- container files
\* A container file as wave.open sees it.  kind "wave" is a well-formed
\* RIFF/WAVE header; chunksize is the data chunk's declared size and data the
\* bytes of it that are really in the file (fewer when the file is cut off).
WaveFiles(bytes, maxlen, rates) ==
    { [kind |-> "wave", nchannels |-> nc, sampwidth |-> sw, framerate |-> fr,
       chunksize |-> Len(d) + cut, data |-> d] :
        nc \in {1, 2}, sw \in {1, 2}, fr \in rates,
        d \in SeqsUpTo(bytes, maxlen), cut \in {0, 1} }

BadFiles ==
    { [kind |-> k, nchannels |-> 1, sampwidth |-> 1, framerate |-> 0,
       chunksize |-> 0, data |-> <<>>] : k \in {"missing", "empty", "garbage"} }

\* wave.Wave_read.getparams(): nframes is the declared chunk size floor-
\* divided by the frame size
GetParams(c) ==
    [nchannels |-> c.nchannels, sampwidth |-> c.sampwidth,
     framerate |-> c.framerate,
     nframes   |-> c.chunksize \div (c.nchannels * c.sampwidth)]

\* wave.Wave_read.readframes(n): at most n whole frames, and no more bytes
\* than the file holds
ReadFrames(c, n) ==
    SubSeq(c.data, 1, Min(Len(c.data), n * c.nchannels * c.sampwidth))

\* ------------------------------------------------------------- decoding
\* variant: '>h', big-endian
UnpackShortBigEndian(lo, hi) ==
    LET u == hi + 256 * lo
    IN  IF u >= 32768 THEN u - 65536 ELSE u

\* one '<h' item: little-endian signed 16-bit
UnpackShort(lo, hi) ==
    LET u == lo + 256 * hi
    IN  IF u >= 32768 THEN u - 65536 ELSE u

\* struct.unpack('<' + 'h' * count, raw) succeeds exactly when raw has
\* struct.calcsize(fmt) = 2 * count bytes
UnpackFits(count, raw) == Len(raw) = 2 * count

Unpack(count, raw) ==
    [i \in 1..count |-> UnpackShort(raw[2 * i - 1], raw[2 * i])]

\* np.array(data): a one-dimensional array; an array is its shape and its
\* elements in C (row-major) order
Array(data) == [shape |-> <<Len(data)>>, flat |-> data]

\* ndarray.reshape(-1, ncols)
Reshape(a, ncols) ==
    [shape |-> <<Len(a.flat) \div ncols, ncols>>, flat |-> a.flat]

\* a[row, col] of a two-dimensional array (0-based, as in numpy)
Item(a, row, col) == a.flat[row * a.shape[2] + col + 1]

\* lines 55-59: the sample buffer decoded from raw under params
Decode(p, raw) ==
    LET signal == Array(Unpack(p.nframes * p.nchannels, raw))
    IN  IF p.nchannels > 1 THEN Reshape(signal, p.nchannels) ELSE signal

(* ------------------------------- state --------------------------------- *)

VARIABLES
    session,    \* TRUE once __init__ has returned an object
    filepath,   \* self.filepath
    params,     \* self.params
    frames,     \* self.frames
    signal,     \* self.signal
    file,       \* the container file the last successful wave.open read
    tempExists, \* the temporary file of the last load_wav is on disk
    report,     \* the content of the output file
    call,       \* the last call: its name and argument
    err,        \* the exception the last call raised, "none" if it returned
    ret,        \* the value the last call returned
    io,         \* the file and process operations the last call performed
    loaded      \* history: some load_wav has returned normally

vars == <<session, filepath, params, frames, signal, file, tempExists, report,
          call, err, ret, io, loaded>>

Init ==
    /\ session = FALSE
    /\ filepath = None
    /\ params = None
    /\ frames = None
    /\ signal = None
    /\ file = None
    /\ tempExists = FALSE
    /\ report = None
    /\ call = [name |-> "none", arg |-> <<>>]
    /\ err = "none"
    /\ ret = None
    /\ io = {}
    /\ loaded = FALSE

(* --------------------------- AudioChecker() ---------------------------- *)

\* __init__(filepath): rejects the extension before anything else
Construct(path) ==
    /\ ~session
    /\ call' = [name |-> "init", arg |-> path]
    /\ io' = {}
    /\ ret' = None
    /\ IF Supported(path)
       THEN /\ session' = TRUE
            /\ filepath' = Some(path)
            /\ params' = None
            /\ frames' = None
            /\ signal' = None
            /\ err' = "none"
       ELSE /\ err' = "ValueError"
            /\ UNCHANGED <<session, filepath, params, frames, signal>>
    /\ UNCHANGED <<file, tempExists, report, loaded>>

(* ------------------------------ load_wav ------------------------------- *)

\* variant: subprocess.run without check=True returns whatever the status
RunUnchecked(status) == TRUE

\* subprocess.run(..., check=True) returns only on exit status 0
RunChecked(status) == status = 0

\* the exception wave.open raises on a file that is no container
OpenError(c) ==
    CASE c.kind = "missing" -> "FileNotFoundError"
      [] c.kind = "empty"   -> "EOFError"
      [] c.kind = "garbage" -> "wave.Error"
      [] OTHER              -> "none"

\* load_wav(): c is the content of the file wave.open is given (for an .mp3
\* input, what ffmpeg left in the temporary file), status the exit status of
\* ffmpeg, removable whether os.remove succeeds.
LoadWav(c, status, removable) ==
    /\ session
    /\ LET mp3        == NeedsTranscode(Val(filepath))
           transcoded == mp3 => RunChecked(status)
           opened     == transcoded /\ OpenError(c) = "none"
           p          == GetParams(c)
           bytes      == ReadFrames(c, p.nframes)
           fits       == UnpackFits(p.nframes * p.nchannels, bytes)
       IN  \* without a transcode there is no subprocess and no temporary
           \* file; the temporary file exists, so it cannot be missing
           /\ IF mp3 THEN c.kind # "missing" ELSE status = 0 /\ removable
           /\ call' = [name |-> "load_wav", arg |-> <<>>]
           /\ ret' = None
           /\ io' = (IF mp3 THEN {"mkstemp", IF status = 0 THEN "ffmpeg:0"
                                                          ELSE "ffmpeg:1"}
                            ELSE {})
                    \cup (IF transcoded THEN {"open"} ELSE {})
                    \cup (IF opened THEN {"read"} ELSE {})
                    \cup (IF mp3 /\ opened
                          THEN {IF removable THEN "remove" ELSE "remove:OSError"}
                          ELSE {})
           /\ tempExists' = (mp3 /\ ~(opened /\ removable))
           /\ err' = IF ~transcoded THEN "CalledProcessError"
                     ELSE IF ~opened THEN OpenError(c)
                     ELSE IF ~fits THEN "struct.error"
                     ELSE "none"
           /\ params' = IF opened THEN Some(p) ELSE params
           /\ file' = IF opened THEN Some(c) ELSE file
           /\ IF opened /\ fits
              THEN /\ frames' = Some(p.nframes)
                   /\ signal' = Some(Decode(p, bytes))
                   /\ loaded' = TRUE
              ELSE UNCHANGED <<frames, signal, loaded>>
    /\ UNCHANGED <<session, filepath, report>>

(* ------------------------------- analyze ------------------------------- *)

\* variant: the guard tests self.params, which load_wav sets first
NotLoadedByParams == params = None

\* the guard of analyze and plot_waveform: self.signal is None
NotLoaded == signal = None

\* np.abs(a), elementwise
AbsAll(flat) == [i \in 1..Len(flat) |-> Abs(flat[i])]

\* np.max(a) of a non-empty array, as a left-to-right reduction
RECURSIVE MaxOf(_)
MaxOf(flat) ==
    IF Len(flat) = 1 THEN flat[1]
    ELSE Max(flat[Len(flat)], MaxOf(SubSeq(flat, 1, Len(flat) - 1)))

\* the sum np.mean divides by the element count
RECURSIVE SumOf(_)
SumOf(flat) ==
    IF flat = <<>> THEN 0 ELSE flat[Len(flat)] + SumOf(SubSeq(flat, 1, Len(flat) - 1))

\* variant: np.max(self.signal), the absolute value forgotten
PeakSigned(sig) == MaxOf(sig.flat)

\* line 74: np.max(np.abs(self.signal))
Peak(sig) == MaxOf(AbsAll(sig.flat))

\* the exception analyze() raises in the current state, "none" if it returns
AnalyzeError ==
    IF NotLoaded THEN "RuntimeError"
    ELSE IF params = None THEN "AttributeError"
    ELSE IF frames = None THEN "TypeError"
    ELSE IF Val(params).framerate = 0 THEN "ZeroDivisionError"
    ELSE IF signal = None THEN "TypeError"
    ELSE IF Val(signal).flat = <<>> THEN "ValueError"
    ELSE "none"

\* the dict analyze() returns; the two float quotients are kept exact, as
\* <<numerator, denominator>>
Analysis ==
    [channels       |-> Val(params).nchannels,
     sample_width   |-> Val(params).sampwidth,
     framerate      |-> Val(params).framerate,
     frames         |-> Val(frames),
     duration_s     |-> <<Val(frames), Val(params).framerate>>,
     peak_amplitude |-> Peak(Val(signal)),
     mean_amplitude |-> <<SumOf(AbsAll(Val(signal).flat)), Len(Val(signal).flat)>>]

Analyze ==
    /\ session
    /\ call' = [name |-> "analyze", arg |-> <<>>]
    /\ io' = {}
    /\ err' = AnalyzeError
    /\ ret' = IF AnalyzeError = "none" THEN Some(Analysis) ELSE None
    /\ UNCHANGED <<session, filepath, params, frames, signal, file, tempExists,
                   report, loaded>>

(* ---------------------------- plot_waveform ---------------------------- *)

\* the exception plot_waveform() raises, "none" if it returns; rendered is
\* whether matplotlib manages to draw and encode the figure
PlotError(rendered) ==
    IF NotLoaded THEN "RuntimeError"
    ELSE IF params = None THEN "AttributeError"
    ELSE IF signal = None THEN "TypeError"
    ELSE IF Val(params).nchannels > 1
            /\ (Len(Val(signal).shape) < 2 \/ Val(signal).shape[2] < 2)
         THEN "IndexError"
    ELSE IF ~rendered THEN "MemoryError"
    ELSE "none"

\* the PNG buffer: what is known of it is the number of traces drawn
Waveform ==
    [format |-> "PNG",
     traces |-> IF Val(params).nchannels > 1 THEN 2
                ELSE IF Len(Val(signal).shape) = 2 THEN Val(signal).shape[2]
                ELSE 1]

PlotWaveform(rendered) ==
    /\ session
    /\ call' = [name |-> "plot_waveform", arg |-> <<>>]
    /\ io' = {}
    /\ err' = PlotError(rendered)
    /\ ret' = IF PlotError(rendered) = "none" THEN Some(Waveform) ELSE None
    /\ UNCHANGED <<session, filepath, params, frames, signal, file, tempExists,
                   report, loaded>>

(* -------------------------- export_pdf_report -------------------------- *)

\* variant: the canvas is saved before the waveform is rendered
SavesBeforePlot(analysisErr, plotErr, writable) ==
    analysisErr = "none" /\ writable

\* the output file is written by c.save(), the last statement, reached only
\* when analyze() and plot_waveform() have both returned
Saves(analysisErr, plotErr, writable) ==
    analysisErr = "none" /\ plotErr = "none" /\ writable

\* the page: one labelled line per field of the analysis dict, and the
\* format of the embedded image
Page(analysisErr, plotErr) ==
    [lines |-> IF analysisErr = "none" THEN DOMAIN Analysis ELSE {},
     image |-> IF plotErr = "none" THEN Waveform.format ELSE "none"]

ExportPdfReport(rendered, writable) ==
    /\ session
    /\ call' = [name |-> "export_pdf_report", arg |-> <<>>]
    /\ ret' = None
    /\ LET aerr == AnalyzeError
           perr == PlotError(rendered)
       IN  /\ err' = IF aerr # "none" THEN aerr
                     ELSE IF perr # "none" THEN perr
                     ELSE IF ~writable THEN "OSError"
                     ELSE "none"
           /\ io' = IF Saves(aerr, perr, writable) THEN {"write"} ELSE {}
           /\ report' = IF Saves(aerr, perr, writable)
                        THEN Some(Page(aerr, perr))
                        ELSE report
    /\ UNCHANGED <<session, filepath, params, frames, signal, file, tempExists,
                   loaded>>

(* --------------------------- specifications ---------------------------- *)

\* the files offered to a session used as a library: any call order, the
\* file free to change between calls
\* what the environment may answer: ffmpeg's exit status and whether
\* os.remove succeeds, both only asked for an .mp3 input
Transcodes == session /\ NeedsTranscode(Val(filepath))
Statuses == IF Transcodes THEN {0, 1} ELSE {0}
Removables == IF Transcodes THEN BOOLEAN ELSE {TRUE}

LibFiles ==
    WaveFiles({128}, MaxDataLen, {44100}) \cup BadFiles

New == \E path \in Paths : Construct(path)

Load ==
    \E c \in LibFiles, status \in Statuses, removable \in Removables :
        LoadWav(c, status, removable)

Plot == \E rendered \in BOOLEAN : PlotWaveform(rendered)

Export ==
    \E rendered \in BOOLEAN, writable \in BOOLEAN :
        ExportPdfReport(rendered, writable)

Next == New \/ Load \/ Analyze \/ Plot \/ Export

Spec == Init /\ [][Next]_vars

\* A session that is constructed, loads once and then makes one more call
\* (the script at the end of the file is the run that ends in
\* export_pdf_report).  Its files vary the sample values: short files over
\* the extreme byte values, longer files over two byte values.
OnceFiles ==
    WaveFiles({0, 127, 128, 255}, MaxMainLen, {0, 44100})
        \cup WaveFiles({1, 128}, MaxLongLen, {44100})
        \cup BadFiles

OnceConstruct(path) == call.name = "none" /\ Construct(path)

OnceLoad ==
    /\ call.name = "init"
    /\ err = "none"
    /\ \E c \in OnceFiles, status \in Statuses, removable \in Removables :
           LoadWav(c, status, removable)

OnceAnalyze == call.name = "load_wav" /\ Analyze

OncePlot(rendered) == call.name = "load_wav" /\ PlotWaveform(rendered)

OnceExport(rendered, writable) ==
    call.name = "load_wav" /\ ExportPdfReport(rendered, writable)

NextOnce ==
    \/ \E path \in Paths : OnceConstruct(path)
    \/ OnceLoad
    \/ OnceAnalyze
    \/ \E rendered \in BOOLEAN : OncePlot(rendered)
    \/ \E rendered \in BOOLEAN, writable \in BOOLEAN :
           OnceExport(rendered, writable)

SpecOnce == Init /\ [][NextOnce]_vars

(* ------------------------------ properties ----------------------------- *)

TypeOK ==
    /\ session \in BOOLEAN
    /\ tempExists \in BOOLEAN
    /\ loaded \in BOOLEAN
    /\ Len(filepath) <= 1 /\ Len(params) <= 1 /\ Len(frames) <= 1
    /\ Len(signal) <= 1 /\ Len(file) <= 1 /\ Len(report) <= 1 /\ Len(ret) <= 1
    /\ call.name \in {"none", "init", "load_wav", "analyze", "plot_waveform",
                      "export_pdf_report"}

LoadCalled == call.name = "load_wav"
UsesBuffer == {"analyze", "plot_waveform", "export_pdf_report"}

\* C1: for an .mp3 input the temporary file load_wav created is gone when
\* load_wav has finished, on every exit path, unless the deletion itself
\* failed.
TempFileGoneAfterLoad ==
    (LoadCalled /\ "mkstemp" \in io /\ "remove:OSError" \notin io)
        => ~tempExists

\* C2: while no load_wav has returned normally, analyze, plot_waveform and
\* export_pdf_report raise the not-loaded RuntimeError, return nothing, and
\* leave params, frames and signal (and the output file) as they were.
NotLoadedRejected ==
    [][(~loaded /\ call'.name \in UsesBuffer)
         => /\ err' = "RuntimeError"
            /\ ret' = None
            /\ params' = params /\ frames' = frames /\ signal' = signal
            /\ report' = report]_vars

\* a call on the buffer was refused after a load_wav that raised part-way,
\* with params already set
NotLoadedAfterPartialLoad ==
    /\ ~loaded
    /\ call.name \in UsesBuffer
    /\ err = "RuntimeError"
    /\ params # None

\* the true maximum of the absolute sample values of the loaded buffer
IsMaxAbs(m, flat) ==
    /\ \E i \in 1..Len(flat) : Abs(flat[i]) = m
    /\ \A i \in 1..Len(flat) : Abs(flat[i]) <= m

AnalyzeReturned == call.name = "analyze" /\ err = "none"

\* C3 as stated: the peak_amplitude analyze returns is the maximum absolute
\* sample value and lies in 0..32767.
PeakWithinInt16 ==
    AnalyzeReturned =>
        /\ IsMaxAbs(Val(ret).peak_amplitude, Val(signal).flat)
        /\ Val(ret).peak_amplitude \in 0..32767

\* C3, amended: the peak_amplitude analyze returns is the maximum absolute
\* value of the samples, each in -32768..32767, and lies in 0..32768.
PeakIsMaxAbs ==
    AnalyzeReturned =>
        /\ \A i \in 1..Len(Val(signal).flat) :
               Val(signal).flat[i] \in -32768..32767
        /\ IsMaxAbs(Val(ret).peak_amplitude, Val(signal).flat)
        /\ Val(ret).peak_amplitude \in 0..32768

\* analyze returned the peak of a buffer whose largest magnitude belongs to
\* a negative sample and whose other sample is positive
PeakOfNegativeSample ==
    /\ AnalyzeReturned
    /\ Len(Val(signal).flat) >= 2
    /\ Val(ret).peak_amplitude = 32768
    /\ \E i \in 1..Len(Val(signal).flat) : Val(signal).flat[i] = 32767

\* C4: a container of 16-bit samples whose data has a byte length that is no
\* multiple of channelCount * sampleWidthBytes makes load_wav fail.
MisalignedDataRejected ==
    (LoadCalled /\ "read" \in io
       /\ Val(params).sampwidth = 2
       /\ Val(file).chunksize = Len(Val(file).data)
       /\ Len(Val(file).data) % (Val(params).nchannels * Val(params).sampwidth) # 0)
        => err # "none"

\* C5: a container that declares a sample width other than 2 bytes makes
\* load_wav fail, whatever its frame count, and signal stays unset.
OtherWidthRejected ==
    (LoadCalled /\ "read" \in io /\ Val(params).sampwidth # 2)
        => (err # "none" /\ signal = None)

\* the page a complete report holds: every field of the analysis and the
\* waveform image
FullPage ==
    [lines |-> {"channels", "sample_width", "framerate", "frames", "duration_s",
                "peak_amplitude", "mean_amplitude"},
     image |-> "PNG"]

\* C6: the output file is written only by an export_pdf_report call that
\* returns normally on a loaded session whose analyze and plot_waveform
\* stages succeeded, and then holds the full page; a call that raises
\* writes nothing.
ReportOnlyAfterAllStages ==
    [][/\ (report' # report \/ (call'.name = "export_pdf_report" /\ "write" \in io'))
            => /\ call'.name = "export_pdf_report"
               /\ err' = "none"
               /\ loaded
               /\ AnalyzeError = "none"
               /\ PlotError(TRUE) = "none"
               /\ report' = Some(FullPage)
       /\ (err' # "none") => (report' = report /\ "write" \notin io')]_vars

\* a report was written by a call that returned normally
ReportWritten ==
    /\ call.name = "export_pdf_report"
    /\ err = "none"
    /\ "write" \in io
    /\ report = Some(FullPage)

\* the little-endian signed 16-bit value v is stored as bytes lo, hi
IsLittleEndian16(v, lo, hi) ==
    /\ v \in -32768..32767
    /\ v % 256 = lo
    /\ (v \div 256) % 256 = hi

\* the session holds a multi-channel buffer decoded from a complete container
\* of 16-bit samples
StereoLoaded ==
    /\ loaded
    /\ Val(params).nchannels > 1
    /\ Val(params).sampwidth = 2
    /\ Val(file).chunksize = Len(Val(file).data)
    /\ Len(Val(file).data) = 2 * Val(params).nframes * Val(params).nchannels

\* C7: with more than one channel the decoded buffer has frameCount rows and
\* channelCount columns, and flat sample i, the little-endian 16-bit value of
\* bytes 2i and 2i+1, sits unchanged at row i div channelCount, column
\* i mod channelCount.
DeinterleaveLayout ==
    StereoLoaded =>
        LET n == Val(params).nframes
            c == Val(params).nchannels
            d == Val(file).data
            a == Val(signal)
        IN  /\ a.shape = <<n, c>>
            /\ Len(a.flat) = n * c
            /\ \A i \in 0..(n * c - 1) :
                   IsLittleEndian16(Item(a, i \div c, i % c),
                                    d[2 * i + 1], d[2 * i + 2])

\* two stereo frames were decoded, with differing samples, one negative
TwoStereoFramesDecoded ==
    /\ StereoLoaded
    /\ Val(signal).shape = <<2, 2>>
    /\ Item(Val(signal), 0, 1) # Item(Val(signal), 1, 0)
    /\ Item(Val(signal), 1, 1) < 0
    /\ Item(Val(signal), 0, 0) > 0

\* C8: a path whose extension, lower-cased, is neither .wav nor .mp3 is
\* rejected by the constructor with ValueError: no session results and no
\* file or process operation has happened.
UnsupportedRejectedBeforeIO ==
    (call.name = "init" /\ Lower(SplitExt(call.arg)) \notin {DotWav, DotMp3})
        => /\ err = "ValueError"
           /\ ~session
           /\ filepath = None
           /\ io = {}
           /\ file = None /\ ~tempExists /\ report = None

\* the constructor refused a path that ends in .mp3 but has no extension
HiddenFileRejected ==
    /\ call.name = "init"
    /\ call.arg = <<".", "m", "p", "3">>
    /\ err = "ValueError"
    /\ ~session

\* C9: when ffmpeg exits with a non-zero status load_wav raises
\* CalledProcessError without opening or reading a container, and params,
\* frames and signal keep their values.
TranscodeFailureIsFatal ==
    [][(call'.name = "load_wav" /\ "ffmpeg:1" \in io')
         => /\ err' = "CalledProcessError"
            /\ "open" \notin io' /\ "read" \notin io'
            /\ params' = params /\ frames' = frames /\ signal' = signal
            /\ file' = file]_vars

\* a transcode failed on a session that an earlier load_wav had loaded
TranscodeFailedAfterLoad ==
    /\ LoadCalled
    /\ "ffmpeg:1" \in io
    /\ err = "CalledProcessError"
    /\ loaded

\* C10: whenever signal is set, frames equals params.nframes and the signal
\* holds params.nframes * params.nchannels samples.
LoadedStateFromOneLoad ==
    signal # None =>
        /\ frames = Some(Val(params).nframes)
        /\ Len(Val(signal).flat) = Val(params).nframes * Val(params).nchannels

====
